---- MODULE Spec2Model ----
(***************************************************************************)
(* Model of the 1-D reduction-to-pole filter (common.py: tukey_window,     *)
(* rtp_1d).  Real numbers are fixed-point integers with Scale units per    *)
(* 1.0; a complex number is a record [nan, re, im]; the IEEE result of     *)
(* 0/0 is the record NaN, and it propagates as in numpy.  Values agree     *)
(* with the float64 values of the code to within a few units of 1/Scale;   *)
(* an exact zero of the model is a zero within rounding error of the code. *)
(* The desktop application (rtp_app.py) is modelled on top of it: the      *)
(* window's attributes and widgets, the worker thread that calls rtp_1d    *)
(* step by step, and the queue of signals between the two.                 *)
(***************************************************************************)
EXTENDS Integers, Sequences, FiniteSets, TLC

\* ---------------------------------------------------------------- bounds
Scale == 1000        \* fixed-point units per 1.0
MaxWinN == 60        \* window lengths explored on their own: 0..MaxWinN
MaxN == 3            \* short profiles: every length 0..MaxN
LongN == 21          \* length of the long profiles (taper is not all ones)

\* ------------------------------------------------------ program constants
PiNum == 355         \* np.pi as the fraction PiNum / PiDen
PiDen == 113
AlphaNum == 1        \* alpha = 0.1 as the fraction AlphaNum / AlphaDen
AlphaDen == 10
PadFactor == 2       \* fft length is taken from n * 2

\* --------------------------------------------------------- real arithmetic
Abs(x) == IF x < 0 THEN -x ELSE x

Sgn(x) == IF x > 0 THEN 1 ELSE IF x < 0 THEN -1 ELSE 0

\* a / b rounded to nearest (half away from zero), b # 0
RoundDiv(a, b) ==
    LET q == (Abs(a) + Abs(b) \div 2) \div Abs(b)
    IN  IF Sgn(a) * Sgn(b) < 0 THEN -q ELSE q

\* product of two fixed-point reals
Mul(x, y) == RoundDiv(x * y, Scale)

\* Python int(a / b): truncation toward zero, b > 0
IntTrunc(a, b) == IF a >= 0 THEN a \div b ELSE -((-a) \div b)

\* ------------------------------------------------------------ trigonometry
\* Internal resolution of the series below.
TrigScale == 20 * Scale

\* sin t and cos t for 0 <= t <= pi/4, t and result in TrigScale units
SinSeries(t) ==
    LET t2 == RoundDiv(t * t, TrigScale)
        u3 == TrigScale - RoundDiv(t2, 42)
        u2 == TrigScale - RoundDiv(RoundDiv(t2 * u3, TrigScale), 20)
        u1 == TrigScale - RoundDiv(RoundDiv(t2 * u2, TrigScale), 6)
    IN  RoundDiv(t * u1, TrigScale)

CosSeries(t) ==
    LET t2 == RoundDiv(t * t, TrigScale)
        u4 == TrigScale - RoundDiv(t2, 56)
        u3 == TrigScale - RoundDiv(RoundDiv(t2 * u4, TrigScale), 30)
        u2 == TrigScale - RoundDiv(RoundDiv(t2 * u3, TrigScale), 12)
    IN  TrigScale - RoundDiv(RoundDiv(t2 * u2, TrigScale), 2)

\* the angle pi * r / den in TrigScale radians
Radians(r, den) == RoundDiv(PiNum * TrigScale * r, PiDen * den)

\* sin(pi * r / den) for 0 <= r / den <= 1/2, in TrigScale units
SinQ(r, den) ==
    IF 4 * r <= den THEN SinSeries(Radians(r, den))
    ELSE CosSeries(Radians(den - 2 * r, 2 * den))

\* cos(pi * num / den) in Scale units, den > 0, any integer num
Cos(num, den) ==
    LET m == num % (2 * den)
        r == IF m > den THEN 2 * den - m ELSE m
    IN  IF 2 * r > den
        THEN -RoundDiv(SinQ(2 * r - den, 2 * den), TrigScale \div Scale)
        ELSE RoundDiv(SinQ(den - 2 * r, 2 * den), TrigScale \div Scale)

\* sin(pi * num / den) = cos(pi * num / den - pi / 2)
Sin(num, den) == Cos(2 * num - den, 2 * den)

\* ------------------------------------------------------------ tukey_window
\* s[lo:hi] of Python, for a sequence s (indices from 0, negatives wrap)
PySlice(s, lo, hi) ==
    LET norm(i) == IF i < 0 THEN (IF Len(s) + i < 0 THEN 0 ELSE Len(s) + i)
                   ELSE IF i > Len(s) THEN Len(s) ELSE i
        a == norm(lo)
        b == norm(hi)
    IN  IF b <= a THEN << >> ELSE SubSeq(s, a + 1, b)

\* [1.0] * c
Ones(c) == IF c <= 0 THEN << >> ELSE [i \in 1..c |-> Scale]

\* np.hanning(m): 0.5 + 0.5 * cos(pi * j / (m - 1)), j = 1-m, 3-m, ..., m-1
hanning(m) ==
    IF m < 1 THEN << >>
    ELSE IF m = 1 THEN << Scale >>
    ELSE [i \in 1..m |-> RoundDiv(Scale + Cos(1 - m + 2 * (i - 1), m - 1), 2)]

\* int(alpha * (n - 1))
TaperLen(n, an, ad) == IntTrunc(an * (n - 1), ad)

\* variant: the "// 2" is left out
TaperHalfNoHalving(n, an, ad) == IntTrunc(an * (n - 1), ad)

\* int(alpha * (n - 1) // 2): the float floor division, then int
TaperHalf(n, an, ad) == (an * (n - 1)) \div (2 * ad)

tukey_window(n, an, ad) ==
    PySlice(hanning(TaperLen(n, an, ad)), 0, TaperHalf(n, an, ad))
    \o Ones(n - TaperLen(n, an, ad))
    \o PySlice(hanning(TaperLen(n, an, ad)), TaperHalf(n, an, ad),
               TaperLen(n, an, ad))

\* ---------------------------------------------------------------- complex
C(re, im) == [nan |-> FALSE, re |-> re, im |-> im]

\* a complex value with a NaN part (0/0 of IEEE arithmetic)
NaN == [nan |-> TRUE, re |-> 0, im |-> 0]

CMul(x, y) ==
    IF x.nan \/ y.nan THEN NaN
    ELSE C(RoundDiv(x.re * y.re - x.im * y.im, Scale),
           RoundDiv(x.re * y.im + x.im * y.re, Scale))

\* real / complex, the division of line 68: x / (d.re + j d.im)
CDiv(x, d) ==
    LET m == d.re * d.re + d.im * d.im
    IN  IF d.nan \/ m = 0 THEN NaN
        ELSE C(RoundDiv(x * d.re * Scale, m), RoundDiv(-(x * d.im) * Scale, m))

\* sum of f[i] for i in lo..hi
RECURSIVE SumTo(_, _, _)
SumTo(f, lo, hi) == IF hi < lo THEN 0 ELSE f[hi] + SumTo(f, lo, hi - 1)

\* ----------------------------------------------------------------- detrend
\* a fit that np.polyfit did not return: the exception it raised
NoFit(exception) == [raised |-> exception, a |-> 0, b |-> 0, den |-> 1]

\* np.polyfit(x, y, 1) for numeric x and y.  It raises TypeError on an empty
\* x and on x and y of different lengths.  It divides each column of the
\* Vandermonde matrix by its norm: for an x that is all zeros the norm of
\* the first column is 0, the column becomes NaN and lstsq raises
\* LinAlgError (the SVD does not converge).  Otherwise the fit is the slope
\* a / den and the intercept b / den of the least squares line; for a
\* constant x = c # 0 it is the minimum-norm solution of lstsq, slope
\* mean(y) / (2c) and intercept mean(y) / 2.
polyfit(x, y) ==
    LET m   == Len(x)
        Sx  == SumTo(x, 1, m)
        Sy  == SumTo(y, 1, m)
        Sxx == SumTo([i \in 1..m |-> x[i] * x[i]], 1, m)
        Sxy == SumTo([i \in 1..m |-> x[i] * y[i]], 1, m)
        D   == m * Sxx - Sx * Sx
        Cxy == m * Sxy - Sx * Sy
    IN  IF m = 0 \/ m # Len(y) THEN NoFit("TypeError")
        ELSE IF Sxx = 0 THEN NoFit("LinAlgError")
        ELSE IF D # 0
        THEN [raised |-> "none", a |-> m * Cxy, b |-> Sy * D - Cxy * Sx,
              den |-> m * D]
        ELSE [raised |-> "none", a |-> Sy, b |-> x[1] * Sy,
              den |-> 2 * x[1] * m]

\* y - np.polyval(p, x), elementwise
Residual(p, x, y) ==
    [i \in 1..Len(y) |->
        RoundDiv((y[i] * p.den - p.a * x[i] - p.b) * Scale, p.den)]

\* ---------------------------------------------------------------- spectrum
\* int(np.ceil(np.log2(m))) for m >= 1
RECURSIVE CeilLog2(_)
CeilLog2(m) == IF m <= 1 THEN 0 ELSE 1 + CeilLog2((m + 1) \div 2)

RECURSIVE Pow2(_)
Pow2(e) == IF e = 0 THEN 1 ELSE 2 * Pow2(e - 1)

\* variant: the length is taken from n instead of n * 2
PadLenNoFactor(n) == Pow2(CeilLog2(n))

\* 2 ** int(np.ceil(np.log2(n * 2)))
PadLen(n) == Pow2(CeilLog2(n * PadFactor))

\* the M-th roots of unity: cos and sin of 2 pi m / M for m = 0..M-1
CosTable(M) == [m \in 0..(M - 1) |-> Cos(2 * m, M)]

SinTable(M) == [m \in 0..(M - 1) |-> Sin(2 * m, M)]

\* np.fft.fft(x, n=M) of a real sequence x, zero-padded or cut to M:
\* X[q] = sum_j x[j] exp(-2 pi i j q / M)
fft(x, M) ==
    LET L  == IF Len(x) < M THEN Len(x) ELSE M
        cs == CosTable(M)
        sn == SinTable(M)
    IN  [q \in 1..M |->
          C(RoundDiv(SumTo([j \in 1..L |->
                        x[j] * cs[((j - 1) * (q - 1)) % M]], 1, L), Scale),
            RoundDiv(SumTo([j \in 1..L |->
                        -(x[j] * sn[((j - 1) * (q - 1)) % M])], 1, L), Scale))]

\* np.fft.fftfreq(M, d) * 2 * np.pi, d # 0.  A wavenumber that is not 0.0 but
\* below the resolution is held as one unit with its sign, so that ki == 0
\* and np.sign(ki) are those of the code.
fftfreq2pi(M, d) ==
    LET N == (M - 1) \div 2 + 1
        f(i) == IF i < N THEN i ELSE i - M
        r(i) == RoundDiv(2 * PiNum * f(i) * Scale, PiDen * M * d)
    IN  [q \in 1..M |->
          IF r(q - 1) = 0 THEN Sgn(f(q - 1)) * Sgn(d) ELSE r(q - 1)]

\* np.fft.ifft(Y): y[m] = (1 / M) sum_q Y[q] exp(+2 pi i q m / M); a NaN
\* in any entry reaches every output
ifft(Y) ==
    LET M  == Len(Y)
        cs == CosTable(M)
        sn == SinTable(M)
    IN  IF \E q \in 1..M : Y[q].nan THEN [m \in 1..M |-> NaN]
        ELSE [m \in 1..M |->
          C(RoundDiv(SumTo([q \in 1..M |->
                 Mul(Y[q].re, cs[((q - 1) * (m - 1)) % M])
                 - Mul(Y[q].im, sn[((q - 1) * (m - 1)) % M])], 1, M), M),
            RoundDiv(SumTo([q \in 1..M |->
                 Mul(Y[q].re, sn[((q - 1) * (m - 1)) % M])
                 + Mul(Y[q].im, cs[((q - 1) * (m - 1)) % M])], 1, M), M))]

\* ---------------------------------------------------------------- operator
\* Fx * kx + Fy * ky for angles in degrees
FieldDot(inc, dec, azimuth) ==
    LET Fx == Mul(Cos(inc, 180), Cos(dec, 180))
        Fy == Mul(Cos(inc, 180), Sin(dec, 180))
    IN  Mul(Fx, Cos(azimuth, 180)) + Mul(Fy, Sin(azimuth, 180))

FieldZ(inc) == Sin(inc, 180)

\* float64 where the exact values vanish.  The rounding of the code decides
\* the operator where Fz and Fx*kx + Fy*ky are both 0 in exact arithmetic:
\* an inclination that is a multiple of 180 degrees with a declination and
\* an azimuth 90 degrees apart (modulo 180).  The values below are float64
\* values in units of 2^-61; they are given for angles of whole degrees in
\* -360..360 and for no other angle.
Perpendicular(dec, azimuth) == (dec - azimuth) % 180 = 90

\* np.cos(np.pi / 2) = 6.1e-17 in units of 2^-61.  np.deg2rad(90 * j) is j
\* times the float64 nearest to pi/2 and falls short of the exact angle by
\* j times this much.
Delta == 141

QuadrantAngles == {90 * j : j \in -4..4}

\* np.cos(np.deg2rad(deg)) at a quadrant angle, in units of Delta
CosResidue ==
    [deg \in QuadrantAngles |->
        LET j == deg \div 90
        IN  IF j % 2 = 1
            THEN (IF (Abs(j) - 1) % 4 = 0 THEN Abs(j) ELSE -Abs(j))
            ELSE 0]

\* np.sin(np.deg2rad(deg)) at a quadrant angle, in units of Delta; only
\* np.sin(0.0) is 0.0
SinResidue ==
    [deg \in QuadrantAngles |->
        LET j == deg \div 90
        IN  IF j % 2 = 0
            THEN (IF (j \div 2) % 2 = 1 THEN j ELSE -j)
            ELSE 0]

\* cos(D0) * cos(theta) + sin(D0) * sin(theta) in float64, units of 2^-61,
\* for a declination of 0, 1, ..., 270 degrees and the azimuth 90 degrees
\* above it
QuarterResidue ==
    << 141, 80, 32, -16, -64, -160, -192, 288, 192, 128, 0, 0, 0, -64, -128,
       -320, 256, 256, 256, 128, 0, 0, -128, -128, -128, 384, -256, 128,
       -256, 256, 256, -256, 384, -128, 512, -384, 256, -384, 128, 384, -256,
       384, 0, 384, -256, 0, -384, 128, 512, 0, 384, -128, 256, -512, 256,
       -640, 256, 640, 0, 640, -512, 128, -384, 128, -384, 128, 512, 128,
       768, -384, 128, -512, 128, -384, 128, 768, 128, 640, -320, 128, -256,
       192, -320, 128, 640, 128, 672, -368, 144, -368, 141, -368, 128, 640,
       128, 672, 128, 128, -384, 192, -320, 192, -384, 128, 640, 128, 128,
       -256, 128, -384, 128, -256, 128, 512, 128, 128, 128, 0, 128, 128,
       -768, 256, 0, 128, 128, 256, 128, 128, 256, -896, 256, 128, 0, 0, 0,
       256, 128, 0, -896, 0, 0, 1280, -1024, 384, 0, 1280, -896, -768, 128,
       256, 1408, -896, 128, 128, 1152, -768, -896, 256, 128, 1152, -768,
       128, 128, 1280, -896, -960, 128, 128, 1088, -832, 64, 128, 1152, -896,
       -896, 128, 128, 1152, -880, 136, 141, 1168, -880, -880, 160, 128,
       1184, -896, 128, 128, 1152, -896, 192, 128, 192, 1152, -896, 128, 128,
       1152, -768, 0, 128, 128, 1152, -896, 256, 128, 1152, -1024, 0, 0, 384,
       1152, -896, 256, 128, 1024, -896, 256, 128, 128, 1280, -768, 256, 256,
       1024, -896, 256, 384, 256, 0, 256, 0, 256, 128, 0, 0, 0, 0, 0, 128,
       128, 128, 128, 128, 128, 128, 128, 128, 128, 128, 128, 128, 256, 128,
       192, 192, 192, 128, 128, 192, 128, 128, 160, 160, 128, 144, 144, 144,
       141 >>

\* the same for a declination of 0, 1, ..., 90 degrees and the azimuth 270
\* degrees above it
ThreeQuarterResidue ==
    << -424, -880, 720, 256, -224, -640, -1120, 480, 64, -448, -832, 768,
       192, -192, -704, -1024, 512, -128, -512, -896, 640, 256, -128, -640,
       -1152, 384, 0, -256, -896, 640, 512, 0, -768, -1152, 256, 0, -512,
       -896, 640, 256, -128, -640, -1280, 384, 0, -512, -896, 768, 256, -384,
       -768, -1024, 256, 256, -512, -1024, 640, 128, -128, -896, -896, 640,
       0, -384, -896, 640, 256, -512, -1024, -1024, 512, 256, -384, -896,
       512, 64, -448, -960, -896, 576, 64, -512, -960, 640, 96, -416, -928,
       -928, 592, 88, -424 >>

\* cos(D0) * cos(theta) - sin(D0) * sin(theta) in float64, units of 2^-61,
\* the sum for two angles of opposite signs: for magnitudes lo and total - lo
\* with lo = First(total), First(total) + 1, ..., total / 2
First(total) == IF total > 360 THEN total - 360 ELSE 0

OppositeResidue ==
    [total \in {90, 270, 450, 630} |->
        CASE total = 90 ->
               << 141, 200, 256, 304, -160, -64, -32, 32, 64, 128, 192, 256,
                  256, -192, -128, 0, 0, 0, 128, 256, 256, 256, -128, -128, 0,
                  0, 128, 256, 128, 128, 512, 0, 0, 0, -256, 256, 0, 256,
                  -128, 128, 256, 0, 0, 0, 128, 512 >>
          [] total = 270 ->
               << -424, 32, 480, -1088, -640, -192, 288, 736, -896, -448, 0,
                  448, -1024, -576, -128, 192, 768, -896, -384, 128, 384,
                  -1024, -768, -256, 384, 640, -896, -512, 0, 640, -1408,
                  -896, -128, 128, 896, -896, -256, 0, 768, -1280, -512, 0,
                  384, -128, 0, -512, 128, -384, 0, -512, -256, 384, -256, 0,
                  -384, 0, -384, 0, -384, 0, 0, -512, 0, -256, 128, -512, 0,
                  -384, 128, 0, -384, 0, -512, 0, -384, 192, -384, 128, 128,
                  -448, 128, -448, 128, -448, 96, -448, 96, -928, -416, 88,
                  -424, 88, -432, 80, -448, 96, -416, -448, 64, -448, 64,
                  -384, 64, -384, 128, -512, -384, 0, -512, 128, -384, 128,
                  -512, 128, -384, -512, 512, -384, 512, -512, -256, -384,
                  -384, -512, -512, 768, -512, 640, -256, -384, -384, -384,
                  -512, -640, 512, -512 >>
          [] total = 450 ->
               << 706, 192, -304, 1216, 704, 192, -320, -320, 1216, 768, 128,
                  -320, 1216, 704, 192, -384, -256, 1280, 768, 128, -256,
                  1280, 768, 256, -256, -256, 640, 640, -128, -256, 1664, 640,
                  512, -256, -384, 768, 768, -384, -256, 1536, 768, 640, -256,
                  -384, 768, 640, -128, -128, 1792, 640, 640, -256, -384, 512,
                  1024, -384, -256, 1664, 768, 640, -512, -384, 768, 640,
                  -256, -256, 1664, 640, 768, -384, -256, 640, 768, -256,
                  -384, 1728, 704, 640, -256, -384, 704, 768, -320, -320,
                  1728, 704, 736, -320, -320, 712, 706, -320, -320, 1712, 704,
                  704, -352, -320, 704, 768, -320, -256, 576, 640, 640, -384,
                  -384, 896, 768, -384, -256, 640, 768, 640, -384, -256, 640,
                  512, -256, -256, 896, 896, 512, -128, -256, 768, 768, -256,
                  -256, 768, 512, 512, -384, 640, -256, 768 >>
          [] total = 630 ->
               << -988, -992, 1056, -976, -992, -992, -992, 1088, -960, -1088,
                  -960, 1024, -960, -960, -1024, -960, 1024, -1024, -1024,
                  -896, 896, -1024, -1024, -1024, -896, 1024, -1024, -896,
                  -1024, 1152, -896, -896, -896, -896, 1152, -1152, -1152,
                  -896, 896, -896, -1024, -1152, -1024, 1024, -1024, -1024 >>]

\* The pairs of the tables: the sum is the same with declination and
\* azimuth exchanged, and with both negated.
TabledPairs ==
    {pr \in (-360..360) \X (-360..360) : Perpendicular(pr[1], pr[2])}

SumResidue ==
    [pr \in TabledPairs |->
        LET lo == IF Abs(pr[1]) < Abs(pr[2]) THEN Abs(pr[1]) ELSE Abs(pr[2])
            hi == IF Abs(pr[1]) < Abs(pr[2]) THEN Abs(pr[2]) ELSE Abs(pr[1])
        IN  IF Sgn(pr[1]) * Sgn(pr[2]) >= 0
            THEN (IF hi - lo = 90 THEN QuarterResidue[lo + 1]
                  ELSE ThreeQuarterResidue[lo + 1])
            ELSE OppositeResidue[lo + hi][lo - First(lo + hi) + 1]]

\* The float64 value of Fx * kx + Fy * ky in units of 2^-61, for a
\* perpendicular pair and cos(I0) = 1.0 or -1.0.  At quadrant angles it is
\* the sum of the four first-order terms.
FieldResidue(inc, dec, azimuth) ==
    IF dec % 90 = 0 /\ azimuth % 90 = 0
    THEN Sgn(Cos(inc, 180)) * Delta
         * (Sgn(Cos(dec, 180)) * CosResidue[azimuth]
            + CosResidue[dec] * Sgn(Cos(azimuth, 180))
            + Sgn(Sin(dec, 180)) * SinResidue[azimuth]
            + SinResidue[dec] * Sgn(Sin(azimuth, 180)))
    ELSE Sgn(Cos(inc, 180)) * SumResidue[<< dec, azimuth >>]

\* Fz / (Fx*kx + Fy*ky + 1j * Fz * sign).  Where both Fz and the sum vanish
\* in exact arithmetic the quotient is that of their float64 values: 0 / 0
\* only if both are exactly 0.0.
Quotient(inc, dec, azimuth, sign) ==
    IF inc % 180 = 0 /\ Perpendicular(dec, azimuth)
    THEN CDiv(SinResidue[inc] * Delta,
              C(FieldResidue(inc, dec, azimuth),
                SinResidue[inc] * Delta * sign))
    ELSE CDiv(FieldZ(inc),
              C(FieldDot(inc, dec, azimuth), FieldZ(inc) * sign))

\* the operator entry for a wavenumber ki
OpEntry(ki, inc, dec, azimuth) ==
    IF ki = 0 THEN C(Scale, 0)
    ELSE Quotient(inc, dec, azimuth, Sgn(ki))

BuildOp(kk, inc, dec, azimuth) ==
    [q \in 1..Len(kk) |-> OpEntry(kk[q], inc, dec, azimuth)]

\* np.fft.ifft(spec * op).real[:n]
InverseReal(sp, o, n) ==
    LET y == ifft([q \in 1..Len(sp) |-> CMul(sp[q], o[q])])
    IN  [i \in 1..(IF n < Len(y) THEN n ELSE Len(y)) |->
            [nan |-> y[i].nan, val |-> y[i].re]]

\* --------------------------------------------------------- rtp_1d, stepwise
Callers == {"a", "b"}

VARIABLES
    pc,             \* where each caller's invocation of rtp_1d stands
    distance,       \* caller-owned argument
    anomaly,        \* caller-owned argument
    dx, inc, dec, azimuth,
    n,              \* local: len(anomaly)
    work,           \* local rebinding of the name anomaly (lines 36, 39)
    win,            \* local
    spec,           \* local
    k,              \* local
    op,             \* local
    rtp,            \* the returned array
    err,            \* the exception that ended the call, or "none"
    wpc, wn, wres   \* a call of tukey_window on its own

args == << distance, anomaly, dx, inc, dec, azimuth >>
locals == << n, work, win, spec, k, op, rtp, err >>
wvars == << wpc, wn, wres >>

\* ------------------------------------------- the application (rtp_app.py)
VARIABLES
    csv_data,           \* RTPMainWindow: the loaded table, NoFrame for None
    processed_data,     \* RTPMainWindow: the stored result, NoArray for None
    current_file_path,  \* RTPMainWindow, also the text of lineEdit
    processor_thread,   \* RTPMainWindow: the latest worker, "none" for None
    dsel, asel,         \* current index of comboBox and comboBox_2, 0 = empty
    compute_enabled,    \* pushButton_3.isEnabled()
    export_enabled,     \* pushButton_2.isEnabled()
    progress_visible,   \* progressBar.isVisible()
    progress_value,     \* progressBar.value()
    tableView,          \* the frame shown by tableWidget
    plotView,           \* the lines held by the figure of the canvas
    shown,              \* the latest message box: kind, title, text
    exported,           \* the latest file written by export_results
    queue,              \* signals queued to the main thread, oldest first
    tpc,                \* where each worker's run() stands
    dtype,              \* dtype of the arrays each worker holds
    reverse,            \* each worker's local reverse_anomaly
    sent,               \* history: the signals each worker has emitted
    snap,               \* history: what the window held when it built each
                        \* worker
    origin              \* history: the table processed_data was computed from

wstate == << csv_data, processed_data, current_file_path, processor_thread,
             dsel, asel, compute_enabled, export_enabled, progress_visible,
             progress_value, tableView, plotView, shown, exported >>
tstate == << queue, tpc, dtype, reverse >>
hist == << sent, snap, origin >>
avars == << wstate, tstate, hist >>

vars == << pc, args, locals, wvars, avars >>

\* ------------------------------------------------------------------ inputs
Ramp(len) == [i \in 1..len |-> i - 1]

Flat(len) == [i \in 1..len |-> 1]

Zeros(len) == [i \in 1..len |-> 0]

\* the distance arrays tried with an anomaly of length len: evenly spaced,
\* constant 1, constant 0, and one sample too long
Distances(len) == {Ramp(len), Flat(len), Zeros(len), Ramp(len + 1)}

\* the anomaly samples of the short profiles
AnomVals == {0, 1}

\* every 0/1 anomaly of a length, and the sloping one 0, 1, 2, ...
Anomalies(len) == [1..len -> AnomVals] \cup {Ramp(len)}

ShortProfiles ==
    UNION {{[distance |-> d, anomaly |-> y] :
                d \in Distances(len), y \in Anomalies(len)} :
           len \in 0..MaxN}

Pulse(len, at) == [i \in 1..len |-> IF i = at THEN 1 ELSE 0]

LongProfiles ==
    {[distance |-> Ramp(LongN), anomaly |-> Pulse(LongN, at)] :
        at \in {1, LongN \div 2}}
    \cup {[distance |-> Ramp(LongN), anomaly |-> Flat(LongN)]}

\* Arguments tried.  dx and inc include values outside the contract, which
\* the code accepts.  The angles make Fx*kx + Fy*ky nonzero or exactly 0.0
\* (dec = 45, azimuth = 135).
DxVals == {-1, 0, 1, 2}
IncVals == {-45, 0, 45, 90, 100}
DecVals == {0, 45}
AzVals == {45, 135}

Geometries == [dx : DxVals, inc : IncVals, dec : DecVals, azimuth : AzVals]

LongGeometries == [dx : {1}, inc : {0, 45}, dec : {45}, azimuth : {45, 135}]

\* geometries where Fx*kx + Fy*ky is zero but for the float64 rounding of
\* cos(pi/2)
QuadrantGeometries == [dx : {1}, inc : {0, 45}, dec : {0}, azimuth : {90}]

Inputs ==
    {[profile |-> pr, geometry |-> g] :
        pr \in ShortProfiles, g \in Geometries \cup QuadrantGeometries}
    \cup {[profile |-> pr, geometry |-> g] :
            pr \in LongProfiles, g \in LongGeometries}

\* -------------------------------------------------- tables and their views
\* A DataFrame: the column names, the column dtypes and the cells, column by
\* column.  A cell is [nan, val]; val counts units of 1 in an "int64" or
\* "object" column (a text is held as a code) and units of 1/Scale in a
\* "float64" column.  A column name is the sequence of its characters, each
\* the number of its Unicode code point ("x" is << 120 >>).
\* Every table read here has at least one row.
NoFrame == [cols |-> << >>, dtypes |-> << >>, data |-> << >>]

\* an ndarray attribute that may be None
NoArray == [set |-> FALSE, val |-> << >>]

Cells(raw) == [i \in 1..Len(raw) |-> [nan |-> FALSE, val |-> raw[i]]]

\* df[col].values, col given by its position
Values(f, c) == [i \in 1..Len(f.data[c]) |-> f.data[c][i].val]

\* len(df)
Rows(f) == IF f.data = << >> THEN 0 ELSE Len(f.data[1])

ResultColumn ==
    << 82, 84, 80, 95, 80, 114, 111, 99, 101, 115, 115, 101, 100 >>

\* the position of a column name, 0 when the frame has no such column
ColumnIndex(f, name) ==
    IF \E c \in 1..Len(f.cols) : f.cols[c] = name
    THEN CHOOSE c \in 1..Len(f.cols) : f.cols[c] = name
    ELSE 0

\* the files the user can pick: a profile with a text column, a shorter
\* one that already has a column named RTP_Processed, and one pd.read_csv
\* raises on
FileNames == {"profile.csv", "profile_rtp.csv", "broken.csv"}

Readable(name) == name # "broken.csv"

\* the column names of profile.csv: station, distance, anomaly
StationColumn ==
    << 115, 116, 97, 116, 105, 111, 110 >>

DistanceColumn ==
    << 100, 105, 115, 116, 97, 110, 99, 101 >>

AnomalyColumn ==
    << 97, 110, 111, 109, 97, 108, 121 >>

\* the column names of profile_rtp.csv: X, Anomaly_nT and the result column
XColumn ==
    << 88 >>

AnomalyNTColumn ==
    << 65, 110, 111, 109, 97, 108, 121, 95, 110, 84 >>

\* pd.read_csv(name) of a readable file
read_csv(name) ==
    IF name = "profile.csv"
    THEN [cols   |-> << StationColumn, DistanceColumn, AnomalyColumn >>,
          dtypes |-> << "object", "int64", "int64" >>,
          data   |-> << Cells(<< 1, 2, 3 >>), Cells(Ramp(3)),
                        Cells(Pulse(3, 2)) >>]
    ELSE [cols   |-> << XColumn, AnomalyNTColumn, ResultColumn >>,
          dtypes |-> << "int64", "int64", "int64" >>,
          data   |-> << Cells(Ramp(2)), Cells(Pulse(2, 1)),
                        Cells(<< 2, 2 >>) >>]

\* the values of the four spin boxes when Compute is pressed
AppGeometries == [dx : {1}, inc : {45}, dec : {0}, azimuth : {45}]

\* df['RTP_Processed'] = arr, for len(arr) = len(df): a new last column, or
\* the column of that name overwritten
WithResult(f, arr) ==
    LET c == ColumnIndex(f, ResultColumn)
    IN  IF c = 0
        THEN [cols   |-> Append(f.cols, ResultColumn),
              dtypes |-> Append(f.dtypes, "float64"),
              data   |-> Append(f.data, arr)]
        ELSE [cols   |-> f.cols,
              dtypes |-> [f.dtypes EXCEPT ![c] = "float64"],
              data   |-> [f.data EXCEPT ![c] = arr]]

\* update_table: the frame the table widget shows afterwards; the column
\* assignment raises ValueError when the lengths differ, before any cell of
\* the widget is touched
update_table(csv, proc, view) ==
    IF csv = NoFrame THEN [raised |-> FALSE, view |-> view]
    ELSE IF ~proc.set THEN [raised |-> FALSE, view |-> csv]
    ELSE IF Len(proc.val) # Rows(csv) THEN [raised |-> TRUE, view |-> view]
    ELSE [raised |-> FALSE, view |-> WithResult(csv, proc.val)]

NoPlot == [x |-> << >>, y |-> << >>, p |-> NoArray]

\* update_preview for the selections d and a: the lines of the figure
\* afterwards; ax.plot of the processed line raises on unequal lengths (the
\* exception is caught and printed), leaving the original line alone
update_preview(csv, proc, d, a, plot) ==
    IF csv = NoFrame \/ d = 0 \/ a = 0 \/ d = a THEN plot
    ELSE [x |-> Values(csv, d), y |-> Values(csv, a),
          p |-> IF proc.set /\ Len(proc.val) = Rows(csv)
                THEN proc ELSE NoArray]

\* any character outside printable ASCII
Other == -1

\* The two characters outside ASCII whose lower case holds an ASCII letter:
\* U+212A (Kelvin sign) becomes k, U+0130 becomes i followed by U+0307.
KelvinSign == 8490

DottedCapitalI == 304

\* ch.lower() for one character: the ASCII capitals A..Z become a..z, and
\* every character outside printable ASCII is held as Other
LowerChar(ch) ==
    IF ch \in 65..90 THEN << ch + 32 >>
    ELSE IF ch \in 32..126 THEN << ch >>
    ELSE IF ch = KelvinSign THEN << 107 >>
    ELSE IF ch = DottedCapitalI THEN << 105, Other >>
    ELSE << Other >>

\* col.lower() with every character outside printable ASCII held as Other:
\* a printable ASCII word is in col.lower() exactly if it is in this
RECURSIVE LowerFolded(_)
LowerFolded(col) ==
    IF col = << >> THEN << >>
    ELSE LowerChar(Head(col)) \o LowerFolded(Tail(col))

\* word in text, for two strings
Contains(text, word) ==
    \E i \in 0..(Len(text) - Len(word)) :
        \A j \in 1..Len(word) : text[i + j] = word[j]

\* 'distance' in col.lower() or 'x' in col.lower(); x is character 120
HasDistance(col) ==
    LET low == LowerFolded(col)
    IN  Contains(low, DistanceColumn) \/ Contains(low, << 120 >>)

\* 'anomaly' in col.lower() or 'y' in col.lower(); y is character 121
HasAnomaly(col) ==
    LET low == LowerFolded(col)
    IN  Contains(low, AnomalyColumn) \/ Contains(low, << 121 >>)

\* the column names of the files above, with the two tests made once
FileColumns ==
    {StationColumn, DistanceColumn, AnomalyColumn, XColumn, AnomalyNTColumn,
     ResultColumn}

DistanceNames == {col \in FileColumns : HasDistance(col)}

AnomalyNames == {col \in FileColumns : HasAnomaly(col)}

\* the test of line 325 on a column name
IsDistanceName(col) ==
    IF col \in FileColumns THEN col \in DistanceNames ELSE HasDistance(col)

\* the test of line 327 on a column name
IsAnomalyName(col) ==
    IF col \in FileColumns THEN col \in AnomalyNames ELSE HasAnomaly(col)

\* the auto-select loop of browse_file from column i on; st holds the two
\* current indices and the figure, and every change of an index runs
\* update_preview
RECURSIVE AutoSelect(_, _, _, _)
AutoSelect(csv, proc, i, st) ==
    IF i > Len(csv.cols) THEN st
    ELSE LET c == csv.cols[i]
             nx == IF IsDistanceName(c)
                   THEN IF st.d = i THEN st
                        ELSE [d |-> i, a |-> st.a,
                              plot |-> update_preview(csv, proc, i, st.a,
                                                      st.plot)]
                   ELSE IF IsAnomalyName(c)
                   THEN IF st.a = i THEN st
                        ELSE [d |-> st.d, a |-> i,
                              plot |-> update_preview(csv, proc, st.d, i,
                                                      st.plot)]
                   ELSE st
         IN  AutoSelect(csv, proc, i + 1, nx)

NoMessage == << "none", "", "" >>

NoSnap == [csv |-> NoFrame, processed |-> NoArray, export |-> FALSE]

\* RTPMainWindow.__init__
AppIdle ==
    /\ csv_data = NoFrame
    /\ processed_data = NoArray
    /\ current_file_path = ""
    /\ processor_thread = "none"
    /\ dsel = 0 /\ asel = 0
    /\ compute_enabled = TRUE
    /\ export_enabled = FALSE
    /\ progress_visible = FALSE
    /\ progress_value = -1
    /\ tableView = NoFrame
    /\ plotView = NoPlot
    /\ shown = NoMessage
    /\ exported = NoFrame
    /\ queue = << >>
    /\ tpc = [p \in Callers |-> "none"]
    /\ dtype = [p \in Callers |-> [distance |-> "int64", anomaly |-> "int64"]]
    /\ reverse = [p \in Callers |-> << >>]
    /\ sent = [p \in Callers |-> << >>]
    /\ snap = [p \in Callers |-> NoSnap]
    /\ origin = NoFrame

\* ------------------------------------------------------------------- steps
Fresh(p) ==
    /\ n' = [n EXCEPT ![p] = 0]
    /\ work' = [work EXCEPT ![p] = << >>]
    /\ win' = [win EXCEPT ![p] = << >>]
    /\ spec' = [spec EXCEPT ![p] = << >>]
    /\ k' = [k EXCEPT ![p] = << >>]
    /\ op' = [op EXCEPT ![p] = << >>]
    /\ rtp' = [rtp EXCEPT ![p] = << >>]
    /\ err' = [err EXCEPT ![p] = "none"]

\* the caller builds its arguments and enters rtp_1d
CallWith(p, in) ==
    /\ pc[p] = "idle"
    /\ distance' = [distance EXCEPT ![p] = in.profile.distance]
    /\ anomaly' = [anomaly EXCEPT ![p] = in.profile.anomaly]
    /\ dx' = [dx EXCEPT ![p] = in.geometry.dx]
    /\ inc' = [inc EXCEPT ![p] = in.geometry.inc]
    /\ dec' = [dec EXCEPT ![p] = in.geometry.dec]
    /\ azimuth' = [azimuth EXCEPT ![p] = in.geometry.azimuth]
    /\ Fresh(p)
    /\ pc' = [pc EXCEPT ![p] = "entered"]
    /\ UNCHANGED << wvars, avars >>

Call(p) == \E in \in Inputs : CallWith(p, in)

\* variant: the residual is written into the caller's array (anomaly -= ...)
DetrendInPlace(p) ==
    /\ pc[p] = "entered"
    /\ n' = [n EXCEPT ![p] = Len(anomaly[p])]
    /\ LET fit == polyfit(distance[p], anomaly[p])
       IN  IF fit.raised # "none"
           THEN /\ err' = [err EXCEPT ![p] = fit.raised]
                /\ pc' = [pc EXCEPT ![p] = "raised"]
                /\ UNCHANGED << work, anomaly >>
           ELSE /\ anomaly' = [anomaly EXCEPT ![p] =
                       Residual(fit, distance[p], anomaly[p])]
                /\ work' = [work EXCEPT ![p] = anomaly'[p]]
                /\ pc' = [pc EXCEPT ![p] = "detrended"]
                /\ UNCHANGED err
    /\ UNCHANGED << distance, dx, inc, dec, azimuth, win, spec, k, op, rtp,
                    wvars, avars >>

\* lines 34-36: n = len(anomaly); an exception of np.polyfit ends the call
Detrend(p) ==
    /\ pc[p] = "entered"
    /\ n' = [n EXCEPT ![p] = Len(anomaly[p])]
    /\ LET fit == polyfit(distance[p], anomaly[p])
       IN  IF fit.raised # "none"
           THEN /\ err' = [err EXCEPT ![p] = fit.raised]
                /\ pc' = [pc EXCEPT ![p] = "raised"]
                /\ UNCHANGED work
           ELSE /\ work' = [work EXCEPT ![p] =
                       Residual(fit, distance[p], anomaly[p])]
                /\ pc' = [pc EXCEPT ![p] = "detrended"]
                /\ UNCHANGED err
    /\ UNCHANGED << args, win, spec, k, op, rtp, wvars, avars >>

\* lines 38-39: the elementwise product needs equal lengths, or one operand
\* of length 1 (numpy broadcasting); otherwise it raises ValueError
Taper(p) ==
    /\ pc[p] = "detrended"
    /\ LET w == tukey_window(n[p], AlphaNum, AlphaDen)
       IN  /\ win' = [win EXCEPT ![p] = w]
           /\ IF Len(w) = Len(work[p])
              THEN /\ work' = [work EXCEPT ![p] =
                          [i \in 1..Len(w) |-> Mul(work[p][i], w[i])]]
                   /\ pc' = [pc EXCEPT ![p] = "tapered"]
                   /\ UNCHANGED err
              ELSE IF Len(w) = 1
              THEN /\ work' = [work EXCEPT ![p] =
                          [i \in 1..Len(work[p]) |-> Mul(work[p][i], w[1])]]
                   /\ pc' = [pc EXCEPT ![p] = "tapered"]
                   /\ UNCHANGED err
              ELSE IF Len(work[p]) = 1
              THEN /\ work' = [work EXCEPT ![p] =
                          [i \in 1..Len(w) |-> Mul(work[p][1], w[i])]]
                   /\ pc' = [pc EXCEPT ![p] = "tapered"]
                   /\ UNCHANGED err
              ELSE /\ err' = [err EXCEPT ![p] = "ValueError"]
                   /\ pc' = [pc EXCEPT ![p] = "raised"]
                   /\ UNCHANGED work
    /\ UNCHANGED << args, n, spec, k, op, rtp, wvars, avars >>

\* lines 42-43: fftfreq divides by len(spec) * dx
Transform(p) ==
    /\ pc[p] = "tapered"
    /\ spec' = [spec EXCEPT ![p] = fft(work[p], PadLen(n[p]))]
    /\ IF dx[p] = 0
       THEN /\ err' = [err EXCEPT ![p] = "ZeroDivisionError"]
            /\ pc' = [pc EXCEPT ![p] = "raised"]
            /\ UNCHANGED k
       ELSE /\ k' = [k EXCEPT ![p] = fftfreq2pi(PadLen(n[p]), dx[p])]
            /\ pc' = [pc EXCEPT ![p] = "transformed"]
            /\ UNCHANGED err
    /\ UNCHANGED << args, n, work, win, op, rtp, wvars, avars >>

\* lines 46-68
Operator(p) ==
    /\ pc[p] = "transformed"
    /\ op' = [op EXCEPT ![p] = BuildOp(k[p], inc[p], dec[p], azimuth[p])]
    /\ pc' = [pc EXCEPT ![p] = "filtered"]
    /\ UNCHANGED << args, n, work, win, spec, k, rtp, err, wvars, avars >>

\* lines 70-74
Inverse(p) ==
    /\ pc[p] = "filtered"
    /\ rtp' = [rtp EXCEPT ![p] = InverseReal(spec[p], op[p], n[p])]
    /\ pc' = [pc EXCEPT ![p] = "returned"]
    /\ UNCHANGED << args, n, work, win, spec, k, op, err, wvars, avars >>

\* the caller takes the result or the exception and drops its arrays; the
\* frame is gone
Leave(p) ==
    /\ pc[p] \in {"returned", "raised"}
    /\ pc' = [pc EXCEPT ![p] = "idle"]
    /\ distance' = [distance EXCEPT ![p] = << >>]
    /\ anomaly' = [anomaly EXCEPT ![p] = << >>]
    /\ dx' = [dx EXCEPT ![p] = 1]
    /\ inc' = [inc EXCEPT ![p] = 0]
    /\ dec' = [dec EXCEPT ![p] = 0]
    /\ azimuth' = [azimuth EXCEPT ![p] = 0]
    /\ Fresh(p)
    /\ UNCHANGED << wvars, avars >>

Idle ==
    /\ pc = [p \in Callers |-> "idle"]
    /\ distance = [p \in Callers |-> << >>]
    /\ anomaly = [p \in Callers |-> << >>]
    /\ dx = [p \in Callers |-> 1]
    /\ inc = [p \in Callers |-> 0]
    /\ dec = [p \in Callers |-> 0]
    /\ azimuth = [p \in Callers |-> 0]
    /\ n = [p \in Callers |-> 0]
    /\ work = [p \in Callers |-> << >>]
    /\ win = [p \in Callers |-> << >>]
    /\ spec = [p \in Callers |-> << >>]
    /\ k = [p \in Callers |-> << >>]
    /\ op = [p \in Callers |-> << >>]
    /\ rtp = [p \in Callers |-> << >>]
    /\ err = [p \in Callers |-> "none"]

Init == Idle /\ wpc = "off" /\ wn = 0 /\ wres = << >> /\ AppIdle

\* one caller, every input
Next ==
    \/ Call("a")
    \/ Detrend("a")
    \/ Taper("a")
    \/ Transform("a")
    \/ Operator("a")
    \/ Inverse("a")
    \/ Leave("a")

Spec == Init /\ [][Next]_vars

\* ------------------------------------------------- the window on its own
InitWin ==
    Idle /\ wpc = "arg" /\ wn \in 0..MaxWinN /\ wres = << >> /\ AppIdle

ApplyTukey ==
    /\ wpc = "arg"
    /\ wres' = tukey_window(wn, AlphaNum, AlphaDen)
    /\ wpc' = "ret"
    /\ UNCHANGED << wn, pc, args, locals, avars >>

NextWin == ApplyTukey

SpecWin == InitWin /\ [][NextWin]_vars

\* ------------------------------------------------ RTPProcessor, the worker
\* a signal on its way to the main thread (the connections are queued: the
\* worker emits in its own thread, the window lives in the main thread)
Msg(sig, p, num, arr, txt) ==
    [sig |-> sig, from |-> p, num |-> num, arr |-> arr, txt |-> txt]

Emit(p, m) ==
    /\ queue' = Append(queue, m)
    /\ sent' = [sent EXCEPT ![p] = Append(@, [sig |-> m.sig, num |-> m.num])]

\* -arr, elementwise
Neg(arr) == [i \in 1..Len(arr) |-> [nan |-> arr[i].nan, val |-> -arr[i].val]]

\* no run of the worker object is under way: it was never started, or its
\* last signal has been taken
Free(p) == tpc[p] = "none"

\* line 65, and the entry into rtp_1d of line 67
RunStart(p) ==
    /\ tpc[p] = "start"
    /\ Emit(p, Msg("progress", p, 10, << >>, ""))
    /\ pc' = [pc EXCEPT ![p] = "entered"]
    /\ tpc' = [tpc EXCEPT ![p] = "call"]
    /\ UNCHANGED << args, locals, wvars, wstate, dtype, reverse, snap, origin >>

\* common.py lines 34-36 on the worker's arrays: polyfit adds 0.0 to x and
\* y, which raises TypeError on an array of texts
WorkerDetrend(p) ==
    /\ tpc[p] = "call"
    /\ IF dtype[p].distance = "object" \/ dtype[p].anomaly = "object"
       THEN /\ pc[p] = "entered"
            /\ n' = [n EXCEPT ![p] = Len(anomaly[p])]
            /\ err' = [err EXCEPT ![p] = "TypeError"]
            /\ pc' = [pc EXCEPT ![p] = "raised"]
            /\ UNCHANGED << args, work, win, spec, k, op, rtp, wvars, avars >>
       ELSE Detrend(p)

\* line 69
RunProgress90(p) ==
    /\ tpc[p] = "call" /\ pc[p] = "returned"
    /\ Emit(p, Msg("progress", p, 90, << >>, ""))
    /\ tpc' = [tpc EXCEPT ![p] = "flip"]
    /\ UNCHANGED << pc, args, locals, wvars, wstate, dtype, reverse, snap,
                    origin >>

\* lines 72-73
RunFlip(p) ==
    /\ tpc[p] = "flip"
    /\ reverse' = [reverse EXCEPT ![p] = Neg(rtp[p])]
    /\ Emit(p, Msg("progress", p, 100, << >>, ""))
    /\ tpc' = [tpc EXCEPT ![p] = "emit"]
    /\ UNCHANGED << pc, args, locals, wvars, wstate, dtype, snap, origin >>

\* line 75
RunFinished(p) ==
    /\ tpc[p] = "emit"
    /\ Emit(p, Msg("finished", p, 0, reverse[p], ""))
    /\ tpc' = [tpc EXCEPT ![p] = "done"]
    /\ UNCHANGED << pc, args, locals, wvars, wstate, dtype, reverse, snap,
                    origin >>

\* lines 76-77
RunExcept(p) ==
    /\ tpc[p] = "call" /\ pc[p] = "raised"
    /\ Emit(p, Msg("error", p, 0, << >>, err[p]))
    /\ tpc' = [tpc EXCEPT ![p] = "done"]
    /\ UNCHANGED << pc, args, locals, wvars, wstate, dtype, reverse, snap,
                    origin >>

\* ------------------------------------------------ RTPMainWindow, the window
\* A button emits clicked only while it is enabled.  A handler changes
\* nothing before its file dialog returns and nothing after it opens a
\* message box, so a signal delivered while a dialog or box is open is one
\* delivered before or after the handler.  shown and exported are the
\* outputs of the latest step of the main thread: the message box it opened
\* and the file it wrote.
Quiet == shown' = NoMessage /\ exported' = NoFrame

Warn(text) ==
    /\ shown' = << "warning", "Warning", text >>
    /\ exported' = NoFrame
    /\ UNCHANGED << pc, args, locals, wvars, csv_data, processed_data,
                    current_file_path, processor_thread, dsel, asel,
                    compute_enabled, export_enabled, progress_visible,
                    progress_value, tableView, plotView, tstate, hist >>

\* browse_file for the answer of the file dialog; path "" is a cancelled
\* dialog
browse_file(path) ==
    /\ exported' = NoFrame
    /\ IF path = ""
       THEN /\ shown' = NoMessage
            /\ UNCHANGED << csv_data, current_file_path, dsel, asel,
                            tableView, plotView >>
       ELSE IF ~Readable(path)
       THEN /\ shown' = << "critical", "Error", "Failed to load file" >>
            /\ UNCHANGED << csv_data, current_file_path, dsel, asel,
                            tableView, plotView >>
       ELSE LET f  == read_csv(path)
                st == AutoSelect(f, processed_data, 1,
                                 [d |-> 1, a |-> 1, plot |-> plotView])
                t  == update_table(f, processed_data, tableView)
            IN  /\ csv_data' = f
                /\ current_file_path' = path
                /\ dsel' = st.d
                /\ asel' = st.a
                /\ plotView' = st.plot
                /\ tableView' = t.view
                /\ shown' = IF t.raised
                            THEN << "critical", "Error",
                                    "Failed to load file" >>
                            ELSE << "information", "Success",
                                    "Loaded data points" >>
    /\ UNCHANGED << pc, args, locals, wvars, processed_data,
                    processor_thread, compute_enabled, export_enabled,
                    progress_visible, progress_value, tstate, hist >>

\* the user picks another entry of comboBox; currentTextChanged runs
\* update_preview
SelectDistance(c) ==
    /\ c \in 1..Len(csv_data.cols) /\ c # dsel
    /\ dsel' = c
    /\ plotView' = update_preview(csv_data, processed_data, c, asel, plotView)
    /\ Quiet
    /\ UNCHANGED << pc, args, locals, wvars, csv_data, processed_data,
                    current_file_path, processor_thread, asel,
                    compute_enabled, export_enabled, progress_visible,
                    progress_value, tableView, tstate, hist >>

\* the same for comboBox_2
SelectAnomaly(c) ==
    /\ c \in 1..Len(csv_data.cols) /\ c # asel
    /\ asel' = c
    /\ plotView' = update_preview(csv_data, processed_data, dsel, c, plotView)
    /\ Quiet
    /\ UNCHANGED << pc, args, locals, wvars, csv_data, processed_data,
                    current_file_path, processor_thread, dsel,
                    compute_enabled, export_enabled, progress_visible,
                    progress_value, tableView, tstate, hist >>

\* the worker object a new RTPProcessor(...) is held in
NewWorker == IF Free("a") THEN "a" ELSE "b"

\* lines 416-437 for the geometry g; after is the enabled state Compute is
\* left in
StartWorker(p, g, after) ==
    /\ Free(p)
    /\ distance' = [distance EXCEPT ![p] = Values(csv_data, dsel)]
    /\ anomaly' = [anomaly EXCEPT ![p] = Values(csv_data, asel)]
    /\ dtype' = [dtype EXCEPT ![p] = [distance |-> csv_data.dtypes[dsel],
                                      anomaly |-> csv_data.dtypes[asel]]]
    /\ dx' = [dx EXCEPT ![p] = g.dx]
    /\ inc' = [inc EXCEPT ![p] = g.inc]
    /\ dec' = [dec EXCEPT ![p] = g.dec]
    /\ azimuth' = [azimuth EXCEPT ![p] = g.azimuth]
    /\ processor_thread' = p
    /\ progress_visible' = TRUE
    /\ progress_value' = 0
    /\ compute_enabled' = after
    /\ tpc' = [tpc EXCEPT ![p] = "start"]
    /\ snap' = [snap EXCEPT ![p] =
                  [csv |-> csv_data, processed |-> processed_data,
                   export |-> export_enabled]]
    /\ Quiet
    /\ UNCHANGED << pc, locals, wvars, csv_data, processed_data,
                    current_file_path, dsel, asel, export_enabled, tableView,
                    plotView, queue, reverse, sent, origin >>

\* variant: line 435 is left out
compute_rtp_stays_enabled(g) ==
    /\ compute_enabled
    /\ IF csv_data = NoFrame
       THEN Warn("Please load a CSV file first")
       ELSE IF dsel = 0 \/ asel = 0
       THEN Warn("Please select distance and anomaly columns")
       ELSE IF dsel = asel
       THEN Warn("Distance and anomaly columns must be different")
       ELSE StartWorker(NewWorker, g, TRUE)

compute_rtp(g) ==
    /\ compute_enabled
    /\ IF csv_data = NoFrame
       THEN Warn("Please load a CSV file first")
       ELSE IF dsel = 0 \/ asel = 0
       THEN Warn("Please select distance and anomaly columns")
       ELSE IF dsel = asel
       THEN Warn("Distance and anomaly columns must be different")
       ELSE StartWorker(NewWorker, g, FALSE)

\* update_table raises when the stored result and the table differ in
\* length; the slot then ends there
on_processing_finished(result) ==
    LET pd == [set |-> TRUE, val |-> result]
        t  == update_table(csv_data, pd, tableView)
    IN  /\ processed_data' = pd
        /\ progress_visible' = FALSE
        /\ compute_enabled' = TRUE
        /\ export_enabled' = TRUE
        /\ tableView' = t.view
        /\ IF t.raised
           THEN /\ shown' = NoMessage
                /\ UNCHANGED plotView
           ELSE /\ plotView' = update_preview(csv_data, pd, dsel, asel,
                                              plotView)
                /\ shown' = << "information", "Success",
                               "RTP processing completed successfully!" >>
        /\ exported' = NoFrame
        /\ UNCHANGED << csv_data, current_file_path, processor_thread, dsel,
                        asel, progress_value >>

\* variant: the handler also drops the stored result
on_processing_error_reset(error_msg) ==
    /\ progress_visible' = FALSE
    /\ compute_enabled' = TRUE
    /\ processed_data' = NoArray
    /\ export_enabled' = FALSE
    /\ shown' = << "critical", "Processing Error", error_msg >>
    /\ exported' = NoFrame
    /\ UNCHANGED << csv_data, current_file_path, processor_thread, dsel,
                    asel, progress_value, tableView, plotView >>

on_processing_error(error_msg) ==
    /\ progress_visible' = FALSE
    /\ compute_enabled' = TRUE
    /\ shown' = << "critical", "Processing Error", error_msg >>
    /\ exported' = NoFrame
    /\ UNCHANGED << csv_data, processed_data, current_file_path,
                    processor_thread, dsel, asel, export_enabled,
                    progress_value, tableView, plotView >>

\* the worker's thread has ended and its last signal is taken: nothing reads
\* the worker again, and its fields are dropped
Retire(p) ==
    /\ pc' = [pc EXCEPT ![p] = "idle"]
    /\ distance' = [distance EXCEPT ![p] = << >>]
    /\ anomaly' = [anomaly EXCEPT ![p] = << >>]
    /\ dx' = [dx EXCEPT ![p] = 1]
    /\ inc' = [inc EXCEPT ![p] = 0]
    /\ dec' = [dec EXCEPT ![p] = 0]
    /\ azimuth' = [azimuth EXCEPT ![p] = 0]
    /\ Fresh(p)
    /\ tpc' = [tpc EXCEPT ![p] = "none"]
    /\ dtype' = [dtype EXCEPT ![p] =
                   [distance |-> "int64", anomaly |-> "int64"]]
    /\ reverse' = [reverse EXCEPT ![p] = << >>]
    /\ sent' = [sent EXCEPT ![p] = << >>]
    /\ snap' = [snap EXCEPT ![p] = NoSnap]

\* the main thread takes the oldest queued signal and runs its slot
DeliverProgress ==
    /\ queue # << >> /\ Head(queue).sig = "progress"
    /\ queue' = Tail(queue)
    /\ progress_value' = Head(queue).num
    /\ Quiet
    /\ UNCHANGED << pc, args, locals, wvars, csv_data, processed_data,
                    current_file_path, processor_thread, dsel, asel,
                    compute_enabled, export_enabled, progress_visible,
                    tableView, plotView, tpc, dtype, reverse, hist >>

DeliverFinished ==
    /\ queue # << >> /\ Head(queue).sig = "finished"
    /\ queue' = Tail(queue)
    /\ on_processing_finished(Head(queue).arr)
    /\ origin' = snap[Head(queue).from].csv
    /\ Retire(Head(queue).from)
    /\ UNCHANGED wvars

DeliverError ==
    /\ queue # << >> /\ Head(queue).sig = "error"
    /\ queue' = Tail(queue)
    /\ on_processing_error(Head(queue).txt)
    /\ Retire(Head(queue).from)
    /\ UNCHANGED << wvars, origin >>

\* export_results for the answer of the file dialog; ok is FALSE for a
\* cancelled dialog
export_results(ok) ==
    /\ export_enabled
    /\ IF ~processed_data.set
       THEN Warn("No processed data to export")
       ELSE /\ IF ~ok THEN Quiet
               ELSE IF Len(processed_data.val) # Rows(csv_data)
               THEN /\ shown' = << "critical", "Error", "Export failed" >>
                    /\ exported' = NoFrame
               ELSE /\ exported' = WithResult(csv_data, processed_data.val)
                    /\ shown' = << "information", "Success",
                                   "Results exported" >>
            /\ UNCHANGED << pc, args, locals, wvars, csv_data,
                            processed_data, current_file_path,
                            processor_thread, dsel, asel, compute_enabled,
                            export_enabled, progress_visible, progress_value,
                            tableView, plotView, tstate, hist >>

NextApp ==
    \/ \E path \in FileNames \cup {""} : browse_file(path)
    \/ \E c \in 1..3 : SelectDistance(c)
    \/ \E c \in 1..3 : SelectAnomaly(c)
    \/ \E g \in AppGeometries : compute_rtp(g)
    \/ \E ok \in BOOLEAN : export_results(ok)
    \/ DeliverProgress
    \/ DeliverFinished
    \/ DeliverError
    \/ \E p \in Callers :
        \/ RunStart(p)
        \/ WorkerDetrend(p)
        \/ Taper(p)
        \/ Transform(p)
        \/ Operator(p)
        \/ Inverse(p)
        \/ RunProgress90(p)
        \/ RunFlip(p)
        \/ RunFinished(p)
        \/ RunExcept(p)

SpecApp == Init /\ [][NextApp]_vars

\* ------------------------------------------------------------------ claims
\* the input constraints of the contract: n >= 2, equal lengths, dx > 0,
\* inclination within [-90, 90]
Valid(p) ==
    /\ Len(anomaly[p]) >= 2
    /\ Len(distance[p]) = Len(anomaly[p])
    /\ dx[p] > 0
    /\ inc[p] >= -90 /\ inc[p] <= 90

Past(p, stages) == pc[p] \in stages

RECURSIVE IsPow2(_)
IsPow2(m) == m = 1 \/ (m > 1 /\ m % 2 = 0 /\ IsPow2(m \div 2))

\* C1 (as claimed): on valid input the call returns (it does not raise),
\* the taper window has exactly n weights, the transform is at least n long,
\* and the result has exactly n samples.
CexC1 ==
    \A p \in Callers :
        (pc[p] # "idle" /\ Valid(p)) =>
            /\ pc[p] # "raised"
            /\ Past(p, {"tapered", "transformed", "filtered", "returned"})
                  => (Len(win[p]) = Len(anomaly[p])
                      /\ Len(work[p]) = Len(anomaly[p]))
            /\ Past(p, {"transformed", "filtered", "returned"})
                  => Len(spec[p]) >= Len(anomaly[p])
            /\ pc[p] = "returned" => Len(rtp[p]) = Len(anomaly[p])

\* C2 (as claimed): an invalid input is rejected before any stage runs, with
\* a ValidationError, and never returns a result.
CexC2 ==
    \A p \in Callers :
        (pc[p] # "idle" /\ ~Valid(p)) =>
            /\ pc[p] \in {"entered", "raised"}
            /\ pc[p] = "raised" => err[p] = "ValidationError"
            /\ work[p] = << >> /\ spec[p] = << >> /\ rtp[p] = << >>

\* Fx*kx + Fy*ky = 0: the field has no component along the profile, as at
\* inclination 90 (Fx = Fy = 0) and for a declination perpendicular to the
\* azimuth
DotIsZero(p) == FieldDot(inc[p], dec[p], azimuth[p]) = 0

\* Fz and Fx*kx + Fy*ky are both 0.0 as the code computes them: inclination
\* 0 with the field perpendicular to the profile and no rounding residue
Degenerate(p) ==
    /\ inc[p] % 180 = 0
    /\ Perpendicular(dec[p], azimuth[p])
    /\ SinResidue[inc[p]] = 0
    /\ FieldResidue(inc[p], dec[p], azimuth[p]) = 0

HasNaN(r) == \E i \in 1..Len(r) : r[i].nan

\* C3 (as claimed): in a degenerate geometry the call either raises before
\* the operator is used or holds 0 in every operator entry at k # 0, and a
\* returned result has no NaN.
CexC3 ==
    \A p \in Callers :
        (Valid(p) /\ Degenerate(p)) =>
            /\ Past(p, {"filtered", "returned"}) =>
                  \A q \in 1..Len(op[p]) :
                      k[p][q] # 0 => op[p][q] = C(0, 0)
            /\ pc[p] = "returned" => ~HasNaN(rtp[p])

\* C4: the transform length is the smallest power of two that is at least
\* 2n, and spectrum, wavenumbers and operator all have that length.
ThmC4 ==
    \A p \in Callers :
        spec[p] # << >> =>
            LET M == Len(spec[p])
            IN  /\ Len(anomaly[p]) >= 1
                /\ IsPow2(M)
                /\ M >= 2 * Len(anomaly[p])
                /\ M \div 2 < 2 * Len(anomaly[p])
                /\ Past(p, {"transformed", "filtered", "returned"})
                      => Len(k[p]) = M
                /\ Past(p, {"filtered", "returned"}) => Len(op[p]) = M

\* a profile whose doubled length is not a power of two has its operator
WitC4 ==
    /\ pc["a"] = "filtered"
    /\ Len(anomaly["a"]) = 3
    /\ Len(spec["a"]) = 8
    /\ Len(op["a"]) = 8

\* C5 (as claimed): the operator is fixed by the index alone: entry 0 is
\* 1+0j, entries 1..M/2-1 use +j Fz and entries M/2..M-1 use -j Fz (shown
\* on profiles of matching lengths n >= 2, whatever dx is).
CexC5 ==
    \A p \in Callers :
        (Past(p, {"filtered", "returned"})
         /\ Len(anomaly[p]) >= 2 /\ Len(distance[p]) = Len(anomaly[p])) =>
            LET M == Len(op[p])
            IN  /\ op[p][1] = C(Scale, 0)
                /\ \A i \in 1..(M \div 2 - 1) :
                      op[p][i + 1]
                          = Quotient(inc[p], dec[p], azimuth[p], 1)
                /\ \A i \in (M \div 2)..(M - 1) :
                      op[p][i + 1]
                          = Quotient(inc[p], dec[p], azimuth[p], -1)

\* C6: for n >= 2 and alpha = 0.1 the window has floor(alpha * (n-1) / 2)
\* weights below 1.0 at the leading end and as many at the trailing end,
\* every other weight is 1.0, and weight i equals weight n-1-i.
ThmC6 ==
    (wpc = "ret" /\ wn >= 2) =>
        LET h == (AlphaNum * (wn - 1)) \div (2 * AlphaDen)
        IN  /\ Len(wres) = wn
            /\ \A i \in 1..wn :
                  IF i <= h \/ i > wn - h
                  THEN wres[i] < Scale
                  ELSE wres[i] = Scale
            /\ \A i \in 1..wn : wres[i] = wres[wn + 1 - i]

\* a window with an odd taper length and weights strictly between 0 and 1
WitC6 ==
    /\ wpc = "ret"
    /\ wn >= 2
    /\ TaperLen(wn, AlphaNum, AlphaDen) % 2 = 1
    /\ \E i \in 1..Len(wres) : wres[i] > 0 /\ wres[i] < Scale
    /\ wres[1] = 0 /\ wres[wn] = 0

\* C7: no step of a call changes the caller's distance or anomaly, whether
\* the call goes on, returns or raises.
ThmC7 ==
    [][\A p \in Callers :
          (pc[p] # "idle" /\ pc'[p] # "idle") =>
              (distance'[p] = distance[p] /\ anomaly'[p] = anomaly[p])]_vars

\* a call that raised part-way, after detrending and tapering wrote values
\* that differ from the caller's anomaly
WitC7 ==
    /\ pc["a"] = "raised"
    /\ err["a"] = "ZeroDivisionError"
    /\ Len(work["a"]) = Len(anomaly["a"])
    /\ \E i \in 1..Len(work["a"]) : work["a"][i] # anomaly["a"][i] * Scale
    /\ spec["a"] # << >>

\* C8 (as claimed): every operator entry at k # 0 has magnitude at most 1,
\* and exactly 1 if and only if Fx*kx + Fy*ky = 0 (shown on valid input).
CexC8 ==
    \A p \in Callers :
        (Past(p, {"filtered", "returned"}) /\ Valid(p)) =>
            \A q \in 1..Len(op[p]) :
                k[p][q] # 0 =>
                    LET e  == op[p][q]
                        m2 == e.re * e.re + e.im * e.im
                    IN  /\ ~e.nan
                        /\ m2 <= Scale * Scale
                        /\ (m2 = Scale * Scale)
                             <=> DotIsZero(p)

\* anomaly is an affine function of distance: equal distances carry equal
\* anomalies and all points lie on one line
IsAffine(x, y) ==
    /\ Len(x) = Len(y)
    /\ \A i, j \in 1..Len(y) : x[i] = x[j] => y[i] = y[j]
    /\ \A i, j, l \in 1..Len(y) :
          (y[i] - y[j]) * (x[l] - x[j]) = (y[l] - y[j]) * (x[i] - x[j])

AllZero(r) == \A i \in 1..Len(r) : r[i] = 0

ZeroResult(r) == \A i \in 1..Len(r) : ~r[i].nan /\ r[i].val = 0

\* C9 (as claimed): an affine anomaly, and any anomaly with n = 2, detrends
\* to zeros and the call returns n zeros, for every valid geometry and
\* dx > 0.
CexC9 ==
    \A p \in Callers :
        (pc[p] # "idle" /\ Valid(p)
         /\ (IsAffine(distance[p], anomaly[p]) \/ Len(anomaly[p]) = 2)) =>
            /\ pc[p] # "raised"
            /\ pc[p] = "detrended" => AllZero(work[p])
            /\ pc[p] = "returned" =>
                  (Len(rtp[p]) = Len(anomaly[p]) /\ ZeroResult(rtp[p]))

\* ------------------------------------------------- claims on the application
InFlight(p) == tpc[p] # "none"

Logged(sig, num) == [sig |-> sig, num |-> num]

\* what a run that succeeds emits, and what a run that fails emits
SuccessLog ==
    << Logged("progress", 10), Logged("progress", 90),
       Logged("progress", 100), Logged("finished", 0) >>

ErrorLog == << Logged("progress", 10), Logged("error", 0) >>

IsPrefix(s, t) == Len(s) <= Len(t) /\ s = SubSeq(t, 1, Len(s))

Count(log, sig) == Cardinality({i \in 1..Len(log) : log[i].sig = sig})

\* the main thread takes a worker's error signal, or its finished signal
ErrorHandled ==
    queue # << >> /\ Head(queue).sig = "error" /\ queue' = Tail(queue)

FinishedHandled ==
    queue # << >> /\ Head(queue).sig = "finished" /\ queue' = Tail(queue)

\* C11: a run in which rtp_1d raised emits error exactly once and never
\* finished; the step that handles the error shows it in a message box,
\* hides the progress bar, enables Compute, and leaves processed_data and
\* the enabled state of Export as they were when the run was started.
ThmC11 ==
    [][/\ \A p \in Callers :
            pc'[p] = "raised" =>
                /\ Count(sent'[p], "finished") = 0
                /\ Count(sent'[p], "error") <= 1
                /\ tpc'[p] = "done" => Count(sent'[p], "error") = 1
       /\ ErrorHandled =>
            LET p == Head(queue).from
            IN  /\ pc[p] = "raised"
                /\ sent[p] = ErrorLog
                /\ shown' = << "critical", "Processing Error", err[p] >>
                /\ ~progress_visible'
                /\ compute_enabled'
                /\ processed_data' = snap[p].processed
                /\ export_enabled' = snap[p].export]_vars

\* an error has just been handled, after an earlier run had stored a result
\* that is not all zero
WitC11 ==
    /\ shown = << "critical", "Processing Error", "TypeError" >>
    /\ processed_data.set
    /\ \E i \in 1..Len(processed_data.val) : processed_data.val[i].val # 0
    /\ export_enabled
    /\ compute_enabled
    /\ ~progress_visible
    /\ \A p \in Callers : ~InFlight(p)

\* the frame e is the table f with the array arr as one more, last column
Appended(e, f, arr) ==
    /\ e.cols = Append(f.cols, ResultColumn)
    /\ e.data = Append(f.data, arr)

\* C12 (as claimed): the column stored when a run has succeeded holds the
\* values rtp_1d returned, the table and the plot show it, and a file that
\* export writes is the loaded table with that one column appended.
CexC12 ==
    [][/\ FinishedHandled =>
            /\ processed_data'.set
            /\ processed_data'.val = rtp[Head(queue).from]
            /\ Appended(tableView', csv_data, processed_data'.val)
            /\ dsel # asel => plotView'.p = processed_data'
       /\ exported' # NoFrame =>
            Appended(exported', csv_data, processed_data.val)]_vars

\* the guard of one of the worker's steps holds
CanStep(p) ==
    \/ tpc[p] \in {"start", "flip", "emit"}
    \/ /\ tpc[p] = "call"
       /\ pc[p] \in {"entered", "detrended", "tapered", "transformed",
                     "filtered", "returned", "raised"}

\* C13: Compute is disabled exactly while a run is in flight (from the
\* start of a worker until its finished or error signal has been handled),
\* at most one run is in flight, a run emits progress 10 and then either
\* error, or progress 90, progress 100 and finished, a run that has ended
\* has emitted exactly one of finished and error, and a run in flight can
\* always go on: the worker can take its next step until it has ended, and
\* every queued signal is one the main thread has a slot for.
ThmC13 ==
    /\ Cardinality({p \in Callers : InFlight(p)}) <= 1
    /\ compute_enabled <=> (\A p \in Callers : ~InFlight(p))
    /\ \A p \in Callers :
          /\ IsPrefix(sent[p], SuccessLog) \/ IsPrefix(sent[p], ErrorLog)
          /\ tpc[p] = "done" =>
                /\ sent[p] \in {SuccessLog, ErrorLog}
                /\ Count(sent[p], "finished") + Count(sent[p], "error") = 1
                /\ queue # << >>
                /\ queue[Len(queue)].from = p
                /\ queue[Len(queue)].sig \in {"finished", "error"}
          /\ (InFlight(p) /\ tpc[p] # "done") =>
                /\ Count(sent[p], "finished") + Count(sent[p], "error") = 0
                /\ CanStep(p)
          /\ ~InFlight(p) => sent[p] = << >>
    /\ \A i \in 1..Len(queue) :
          /\ InFlight(queue[i].from)
          /\ queue[i].sig \in {"progress", "finished", "error"}

\* a run has ended with finished and its signals are still queued, while
\* Compute is disabled
WitC13 ==
    /\ tpc["a"] = "done"
    /\ sent["a"] = SuccessLog
    /\ Len(queue) >= 2
    /\ ~compute_enabled
    /\ progress_visible

\* C14 (as claimed): whenever processed_data is set, and so whenever Export
\* is enabled, it was computed from the table now held in csv_data and has
\* as many entries as that table has rows.
CexC14 ==
    /\ export_enabled => processed_data.set
    /\ processed_data.set =>
          /\ origin = csv_data
          /\ Len(processed_data.val) = Rows(csv_data)

====
